---- MODULE Spec2Model ----
(***************************************************************************)
(* A model of convertwebp2: the bounded-concurrency batch orchestrator     *)
(* (src/src/batch-processor.js), the converter whose statistics it shares  *)
(* (src/unnamed/part_002, class GifToWebPConverter), the quality analyser  *)
(* (src/unnamed/part_002, top) and the optimizer (src/unnamed/part_001).   *)
(*                                                                         *)
(* JavaScript runs one callback to completion at a time.  An I/O           *)
(* completion is one macrotask; the promise continuations it triggers      *)
(* (the mapper's code after `await convertFile`, p-map's bookkeeping after *)
(* the mapper settles) are microtasks that all run before the next I/O     *)
(* completion is handled.  The batch actions below follow that rule: a     *)
(* step that handles an I/O completion is enabled only when no             *)
(* continuation is pending.                                                *)
(***************************************************************************)
EXTENDS Integers, Sequences, FiniteSets, TLC

(***************************************************************************)
(* Bounds of the model.                                                    *)
(***************************************************************************)
MaxFiles == 2
MaxConcurrency == 2
MaxResets == 1
MaxRuns == 2
MaxPoolFiles == 3
MaxPairs == 3
MaxMsePixels == 2
MaxDepth == 1

DefaultConcurrency == 4

\* JavaScript's Infinity: larger than every other number of the model.
Infinity == 1000000

Min(a, b) == IF a <= b THEN a ELSE b
Max(a, b) == IF a >= b THEN a ELSE b

VARIABLES
  options,           \* BatchProcessor.options
  progressCallback,  \* BatchProcessor.progressCallback: "null", "ok", "throwing"
  phase,             \* where convertFiles is
  inputPaths,        \* the inputPaths argument of convertFiles
  pc,                \* per input index: where its mapper invocation is
  result,            \* per input index: what convertFile returned
  cause,             \* per input index: why its conversion failed ("none" if not)
  nextIndex,         \* p-map: index of the next input to hand to the mapper
  resolvingCount,    \* p-map: mapper invocations not yet settled
  isRejected,        \* p-map: the returned promise was rejected by stopOnError
  results,           \* p-map: the result array, index -> mapper's value
  errors,            \* p-map: indices whose mapper rejected (stopOnError=false)
  completed,         \* the `completed` counter of convertFiles
  stats,             \* GifToWebPConverter.stats
  notifications,     \* what the progress callback was called with, in order
  finishOrder,       \* indices in the order their convertFile returned
  sinceReset,        \* indices whose convertFile returned since the last reset
  resets,            \* number of resetStats calls so far
  summary,           \* what printBatchSummary last printed
  runs,              \* number of convertFiles calls so far
  qual,              \* one quality-analyser call: its arguments and its outcome
  opt,               \* one optimizer call: its arguments and its outcome
  conv,              \* one GifToWebPConverter: its options and its one convertFile call
  dir,               \* one convertDirectory call: the directory tree and what it found
  gui                \* one 'convert-files' request of the GUI: its files and its events

batchVars == <<options, progressCallback, phase, inputPaths, pc, result, cause,
               nextIndex, resolvingCount, isRejected, results, errors,
               completed, stats, notifications, finishOrder, sinceReset, resets,
               summary, runs>>

vars == <<batchVars, qual, opt, conv, dir, gui>>

(***************************************************************************)
(* Inputs.                                                                 *)
(***************************************************************************)
\* The option objects the constructor is given: concurrency present or not.
OptionObjects ==
  [hasConcurrency : BOOLEAN, concurrency : 0..MaxConcurrency, stopOnError : BOOLEAN]

\* The size in bytes of the input file at a path, and the sizes an encode can give.
InputSize(path) == 10 * path
OutputSizes == {5, 25}

ValidationFailures == {"missing", "notgif", "toolarge"}

\* The path strings the inputs stand for: two files of the input directory and
\* one of a subdirectory, as a recursive findGifFiles lists them.
PathOf(path) ==
  CASE path = 1 -> [dirname |-> "in", base |-> "a", ext |-> ".gif"]
    [] path = 2 -> [dirname |-> "in", base |-> "b", ext |-> ".gif"]
    [] OTHER    -> [dirname |-> "in/sub", base |-> "a", ext |-> ".gif"]

(***************************************************************************)
(* GifToWebPConverter                                                      *)
(***************************************************************************)
ZeroStats == [processed |-> 0, failed |-> 0, totalSizeBefore |-> 0, totalSizeAfter |-> 0]

UpdateStatsNoFailedCount(s, inputSize, outputSize, success) ==
  IF success
    THEN [s EXCEPT !.processed = @ + 1,
                   !.totalSizeBefore = @ + inputSize,
                   !.totalSizeAfter = @ + outputSize]
    ELSE s

UpdateStats(s, inputSize, outputSize, success) ==
  IF success
    THEN [s EXCEPT !.processed = @ + 1,
                   !.totalSizeBefore = @ + inputSize,
                   !.totalSizeAfter = @ + outputSize]
    ELSE [s EXCEPT !.failed = @ + 1]

\* A number n/d kept exact.
Ratio(n, d) == [num |-> n, den |-> d]

GetStatsAsFraction(s) ==
  [processed |-> s.processed, failed |-> s.failed,
   totalSizeBefore |-> s.totalSizeBefore, totalSizeAfter |-> s.totalSizeAfter,
   totalCompressionRatio |->
     IF s.totalSizeBefore > 0
       THEN Ratio(s.totalSizeBefore - s.totalSizeAfter, s.totalSizeBefore)
       ELSE Ratio(0, 1),
   totalSaved |-> s.totalSizeBefore - s.totalSizeAfter]

GetStats(s) ==
  [processed |-> s.processed, failed |-> s.failed,
   totalSizeBefore |-> s.totalSizeBefore, totalSizeAfter |-> s.totalSizeAfter,
   totalCompressionRatio |->
     IF s.totalSizeBefore > 0
       THEN Ratio((s.totalSizeBefore - s.totalSizeAfter) * 100, s.totalSizeBefore)
       ELSE Ratio(0, 1),
   totalSaved |-> s.totalSizeBefore - s.totalSizeAfter]

\* error.message of what validateInputFile or the codec / filesystem threw.
ErrorMessage(c) ==
  CASE c = "missing"  -> "file not found"
    [] c = "notgif"   -> "not a GIF file"
    [] c = "toolarge" -> "file too large"
    [] c = "codec"    -> "codec or filesystem error"
    [] c = "parameter" -> "invalid codec parameter"

\* path.join(outputDir, path.basename(inputPath, path.extname(inputPath)) + '.webp'):
\* the input's directory and extension are dropped.
GenerateOutputPath(inputPath) ==
  [dirname |-> "outputDir", base |-> PathOf(inputPath).base, ext |-> ".webp"]

SuccessResult(inputPath, inputSize, outputSize) ==
  [success |-> TRUE, inputPath |-> inputPath,
   outputPath |-> GenerateOutputPath(inputPath),
   inputSize |-> inputSize, outputSize |-> outputSize,
   savedBytes |-> inputSize - outputSize]

FailureResultWithoutMessage(inputPath, c) ==
  [success |-> FALSE, inputPath |-> inputPath, error |-> "", processingTime |-> 0]

FailureResult(inputPath, c) ==
  [success |-> FALSE, inputPath |-> inputPath, error |-> ErrorMessage(c),
   processingTime |-> 0]

Undefined == [undefined |-> TRUE]

NoSummary == [printed |-> FALSE]

\* printBatchSummary: the counts come from the run's results, the bytes and the
\* ratio from the converter's statistics.
PrintBatchSummary(rs, s) ==
  [printed |-> TRUE,
   successful |-> Cardinality({i \in DOMAIN rs : rs[i].success}),
   failed |-> Cardinality({i \in DOMAIN rs : ~rs[i].success}),
   totalSaved |-> GetStats(s).totalSaved,
   totalCompressionRatio |-> GetStats(s).totalCompressionRatio]

(***************************************************************************)
(* State after `new BatchProcessor(options)`.                              *)
(***************************************************************************)
ConstructorOptions(o) ==
  [concurrency |-> IF o.hasConcurrency THEN o.concurrency ELSE DefaultConcurrency,
   stopOnError |-> o.stopOnError]

BatchInit ==
  /\ options \in {ConstructorOptions(o) : o \in OptionObjects}
  /\ progressCallback = "null"
  /\ phase = "idle"
  /\ inputPaths = <<>>
  /\ pc = <<>>
  /\ result = <<>>
  /\ cause = <<>>
  /\ nextIndex = 1
  /\ resolvingCount = 0
  /\ isRejected = FALSE
  /\ results = <<>>
  /\ errors = {}
  /\ completed = 0
  /\ stats = ZeroStats
  /\ notifications = <<>>
  /\ finishOrder = <<>>
  /\ sinceReset = {}
  /\ resets = 0
  /\ summary = NoSummary
  /\ runs = 0

Indices == 1..Len(inputPaths)

\* A promise continuation is queued: it runs before any other callback.
MicrotaskPending == \E i \in Indices : pc[i] \in {"returned", "notified", "threw"}

\* Mapper invocations that have started and not yet settled.
Running == {i \in Indices : pc[i] \in {"validate", "convert", "returned", "notified", "threw"}}

(***************************************************************************)
(* BatchProcessor                                                          *)
(***************************************************************************)
SetProgressCallback(cb) ==
  /\ phase = "idle"
  /\ progressCallback = "null"
  /\ progressCallback' = cb
  /\ UNCHANGED <<qual, opt, conv, dir, gui>>
  /\ UNCHANGED <<summary, runs>>
  /\ UNCHANGED <<options, phase, inputPaths, pc, result, cause, nextIndex,
                 resolvingCount, isRejected, results, errors, completed, stats,
                 notifications, finishOrder, sinceReset, resets>>

\* convertFiles up to `await fs.ensureDir(outputDir)`.
ConvertFiles(n) ==
  /\ phase = "idle"
  /\ inputPaths' = [i \in 1..n |-> i]
  /\ pc' = [i \in 1..n |-> "pending"]
  /\ result' = [i \in 1..n |-> Undefined]
  /\ cause' = [i \in 1..n |-> "none"]
  /\ results' = [i \in 1..n |-> Undefined]
  /\ phase' = IF n = 0 THEN "rejected" ELSE "ensureDir"
  /\ UNCHANGED <<qual, opt, conv, dir, gui>>
  /\ runs' = runs + 1
  /\ UNCHANGED summary
  /\ UNCHANGED <<options, progressCallback, nextIndex, resolvingCount, isRejected,
                 errors, completed, stats, notifications, finishOrder, sinceReset,
                 resets>>

\* convertFiles called on the same BatchProcessor after an earlier call has
\* settled and its jobs have all finished: the call's own locals start afresh,
\* this.converter and its statistics are the ones of the earlier call.
ConvertFilesAgain(n) ==
  /\ phase \in {"resolved", "rejected"}
  /\ Running = {}
  /\ runs < MaxRuns
  /\ runs' = runs + 1
  /\ inputPaths' = [i \in 1..n |-> i]
  /\ pc' = [i \in 1..n |-> "pending"]
  /\ result' = [i \in 1..n |-> Undefined]
  /\ cause' = [i \in 1..n |-> "none"]
  /\ results' = [i \in 1..n |-> Undefined]
  /\ phase' = IF n = 0 THEN "rejected" ELSE "ensureDir"
  /\ nextIndex' = 1
  /\ resolvingCount' = 0
  /\ isRejected' = FALSE
  /\ errors' = {}
  /\ completed' = 0
  /\ notifications' = <<>>
  /\ finishOrder' = <<>>
  /\ sinceReset' = {}
  /\ UNCHANGED <<qual, opt, conv, dir, gui>>
  /\ UNCHANGED <<options, progressCallback, stats, resets, summary>>

\* The options convertFiles passes to pMap (p-map's default concurrency is Infinity).
PMapOptionsWithoutConcurrency ==
  [concurrency |-> Infinity, stopOnError |-> options.stopOnError]

PMapOptions ==
  [concurrency |-> options.concurrency, stopOnError |-> options.stopOnError]

\* p-map's first loop: how many inputs it hands to the mapper at once.
InitialAdmit(concurrency, n) == Min(concurrency, n)

\* ensureDir settled; on success pMap(...) is called.
EnsureDirDone(ok) ==
  /\ phase = "ensureDir"
  /\ IF ok /\ PMapOptions.concurrency >= 1
       THEN LET k == InitialAdmit(PMapOptions.concurrency, Len(inputPaths)) IN
            /\ phase' = "running"
            /\ pc' = [i \in Indices |-> IF i <= k THEN "validate" ELSE "pending"]
            /\ nextIndex' = k + 1
            /\ resolvingCount' = k
       ELSE /\ phase' = "rejected"
            /\ UNCHANGED <<pc, nextIndex, resolvingCount>>
  /\ UNCHANGED <<qual, opt, conv, dir, gui>>
  /\ UNCHANGED <<summary, runs>>
  /\ UNCHANGED <<options, progressCallback, inputPaths, result, cause, isRejected,
                 results, errors, completed, stats, notifications, finishOrder,
                 sinceReset, resets>>

\* The catch block of convertFile.
ConvertFileCatch(i, c) ==
  /\ stats' = UpdateStats(stats, 0, 0, FALSE)
  /\ result' = [result EXCEPT ![i] = FailureResult(inputPaths[i], c)]
  /\ cause' = [cause EXCEPT ![i] = c]
  /\ pc' = [pc EXCEPT ![i] = "returned"]
  /\ finishOrder' = Append(finishOrder, i)
  /\ sinceReset' = sinceReset \cup {i}

\* convertFile: validateInputFile settles.
Validate(i, v) ==
  /\ i \in Indices
  /\ pc[i] = "validate"
  /\ ~MicrotaskPending
  /\ IF v = "ok"
       THEN /\ pc' = [pc EXCEPT ![i] = "convert"]
            /\ UNCHANGED <<stats, result, cause, finishOrder, sinceReset>>
       ELSE ConvertFileCatch(i, v)
  /\ UNCHANGED <<qual, opt, conv, dir, gui>>
  /\ UNCHANGED <<summary, runs>>
  /\ UNCHANGED <<options, progressCallback, phase, inputPaths, nextIndex,
                 resolvingCount, isRejected, results, errors, completed,
                 notifications, resets>>

\* convertFile: ensureDir, stat, the encode, writeFile and stat succeed.
ConvertOk(i, outputSize) ==
  /\ i \in Indices
  /\ pc[i] = "convert"
  /\ ~MicrotaskPending
  /\ stats' = UpdateStats(stats, InputSize(inputPaths[i]), outputSize, TRUE)
  /\ result' = [result EXCEPT ![i] =
                  SuccessResult(inputPaths[i], InputSize(inputPaths[i]), outputSize)]
  /\ pc' = [pc EXCEPT ![i] = "returned"]
  /\ finishOrder' = Append(finishOrder, i)
  /\ sinceReset' = sinceReset \cup {i}
  /\ UNCHANGED <<qual, opt, conv, dir, gui>>
  /\ UNCHANGED <<summary, runs>>
  /\ UNCHANGED <<options, progressCallback, phase, inputPaths, cause, nextIndex,
                 resolvingCount, isRejected, results, errors, completed,
                 notifications, resets>>

\* convertFile: one of them throws.
ConvertFail(i) ==
  /\ i \in Indices
  /\ pc[i] = "convert"
  /\ ~MicrotaskPending
  /\ ConvertFileCatch(i, "codec")
  /\ UNCHANGED <<qual, opt, conv, dir, gui>>
  /\ UNCHANGED <<summary, runs>>
  /\ UNCHANGED <<options, progressCallback, phase, inputPaths, nextIndex,
                 resolvingCount, isRejected, results, errors, completed,
                 notifications, resets>>

\* What the mapper passes to the progress callback.
ProgressTotalIsCompleted(i) ==
  [completed |-> completed + 1, total |-> completed + 1,
   current |-> inputPaths[i], result |-> result[i],
   counted |-> stats.processed + stats.failed,
   finished |-> Cardinality(sinceReset)]

Progress(i) ==
  [completed |-> completed + 1, total |-> Len(inputPaths),
   current |-> inputPaths[i], result |-> result[i],
   counted |-> stats.processed + stats.failed,
   finished |-> Cardinality(sinceReset)]

\* The mapper after `await this.converter.convertFile(...)`.
MapperResume(i, throws) ==
  /\ i \in Indices
  /\ pc[i] = "returned"
  /\ completed' = completed + 1
  /\ IF progressCallback = "null"
       THEN /\ throws = FALSE
            /\ UNCHANGED notifications
       ELSE /\ progressCallback = "ok" => throws = FALSE
            /\ notifications' = Append(notifications, Progress(i))
  /\ pc' = [pc EXCEPT ![i] = IF throws THEN "threw" ELSE "notified"]
  /\ UNCHANGED <<qual, opt, conv, dir, gui>>
  /\ UNCHANGED <<summary, runs>>
  /\ UNCHANGED <<options, progressCallback, phase, inputPaths, result, cause,
                 nextIndex, resolvingCount, isRejected, results, errors, stats,
                 finishOrder, sinceReset, resets>>

\* A pool that starts the next input only when every job in flight has settled.
PMapNextWaves(i, settled, rc, es) ==
  IF isRejected
    THEN /\ pc' = [pc EXCEPT ![i] = settled]
         /\ resolvingCount' = rc
         /\ UNCHANGED <<nextIndex, phase>>
    ELSE IF nextIndex <= Len(inputPaths)
      THEN IF rc = 0
             THEN /\ pc' = [pc EXCEPT ![i] = settled, ![nextIndex] = "validate"]
                  /\ nextIndex' = nextIndex + 1
                  /\ resolvingCount' = 1
                  /\ UNCHANGED phase
             ELSE /\ pc' = [pc EXCEPT ![i] = settled]
                  /\ resolvingCount' = rc
                  /\ UNCHANGED <<nextIndex, phase>>
      ELSE /\ pc' = [pc EXCEPT ![i] = settled]
           /\ resolvingCount' = rc
           /\ UNCHANGED nextIndex
           /\ phase' = IF rc = 0
                         THEN IF ~PMapOptions.stopOnError /\ es # {}
                                THEN "rejected" ELSE "resolved"
                         ELSE phase

\* p-map's next(), called with resolvingCount already decremented to rc and the
\* collected errors es: admit the next input, or settle the returned promise.
PMapNext(i, settled, rc, es) ==
  IF isRejected
    THEN /\ pc' = [pc EXCEPT ![i] = settled]
         /\ resolvingCount' = rc
         /\ UNCHANGED <<nextIndex, phase>>
    ELSE IF nextIndex <= Len(inputPaths)
      THEN /\ pc' = [pc EXCEPT ![i] = settled, ![nextIndex] = "validate"]
           /\ nextIndex' = nextIndex + 1
           /\ resolvingCount' = rc + 1
           /\ UNCHANGED phase
      ELSE /\ pc' = [pc EXCEPT ![i] = settled]
           /\ resolvingCount' = rc
           /\ UNCHANGED nextIndex
           /\ phase' = IF rc = 0
                         THEN IF ~PMapOptions.stopOnError /\ es # {}
                                THEN "rejected" ELSE "resolved"
                         ELSE phase

\* p-map's `result[index] = value`: the slot is the index the input was read
\* at, not the position in the order of settlement.
StoreResultAsSettled(rs, index, value) ==
  LET k == CHOOSE k \in DOMAIN rs :
             rs[k] = Undefined /\ \A j \in 1..(k - 1) : rs[j] # Undefined
  IN [rs EXCEPT ![k] = value]

StoreResult(rs, index, value) == [rs EXCEPT ![index] = value]

\* p-map after the mapper's promise fulfilled.
PMapFulfilled(i) ==
  /\ i \in Indices
  /\ pc[i] = "notified"
  /\ results' = StoreResult(results, i, result[i])
  /\ PMapNext(i, "fulfilled", resolvingCount - 1, errors)
  /\ UNCHANGED <<qual, opt, conv, dir, gui>>
  /\ summary' = IF phase' = "resolved" THEN PrintBatchSummary(results', stats)
                                       ELSE summary
  /\ UNCHANGED runs
  /\ UNCHANGED <<options, progressCallback, inputPaths, result, cause, isRejected,
                 errors, completed, stats, notifications, finishOrder, sinceReset,
                 resets>>

\* p-map after the mapper's promise rejected.
PMapRejected(i) ==
  /\ i \in Indices
  /\ pc[i] = "threw"
  /\ IF PMapOptions.stopOnError
       THEN /\ isRejected' = TRUE
            /\ phase' = IF isRejected THEN phase ELSE "rejected"
            /\ pc' = [pc EXCEPT ![i] = "rejected"]
            /\ UNCHANGED <<errors, resolvingCount, nextIndex>>
       ELSE /\ errors' = errors \cup {i}
            /\ PMapNext(i, "rejected", resolvingCount - 1, errors \cup {i})
            /\ UNCHANGED isRejected
  /\ UNCHANGED <<qual, opt, conv, dir, gui>>
  /\ UNCHANGED <<summary, runs>>
  /\ UNCHANGED <<options, progressCallback, inputPaths, result, cause, results,
                 completed, stats, notifications, finishOrder, sinceReset, resets>>

ResetStats ==
  /\ resets < MaxResets
  /\ ~MicrotaskPending
  /\ stats' = ZeroStats
  /\ sinceReset' = {}
  /\ resets' = resets + 1
  /\ UNCHANGED <<qual, opt, conv, dir, gui>>
  /\ UNCHANGED <<summary, runs>>
  /\ UNCHANGED <<options, progressCallback, phase, inputPaths, pc, result, cause,
                 nextIndex, resolvingCount, isRejected, results, errors, completed,
                 notifications, finishOrder>>

(***************************************************************************)
(* Quality analyser (src/unnamed/part_002, lines 1-443).  A psnr is kept   *)
(* in hundredths of a dB (calculatePSNR rounds to two decimals), an ssim   *)
(* in thousandths (estimateSSIM rounds to three), a compression ratio as   *)
(* the exact fraction of two byte counts.                                  *)
(***************************************************************************)
MaxPixels == 1
Channels == 3

ExcellentPsnr == 4000
GoodPsnr == 3500
AcceptablePsnr == 3000
PoorPsnr == 2500
ExcellentScore == 90
GoodScore == 75
AcceptableScore == 60

PixelValues == {245, 255}
PixelBuffers == UNION {[1..(Channels * n) -> PixelValues] : n \in 1..MaxPixels}
OriginalSizes == {100}
CompressedSizes == {40, 100, 150, 300}

RECURSIVE SquaredDiffFrom(_, _, _)
SquaredDiffFrom(a, b, i) ==
  IF i > Len(a) THEN 0
  ELSE (a[i] - b[i]) * (a[i] - b[i]) + SquaredDiffFrom(a, b, i + 1)

\* The mean taken over the pixels instead of over the samples.
CalculateMSEPerPixel(originalPixels, compressedPixels, channels) ==
  Ratio(SquaredDiffFrom(originalPixels, compressedPixels, 1),
        Len(originalPixels) \div channels)

\* calculateMSE for buffers of equal length (a multiple of channels).
CalculateMSE(originalPixels, compressedPixels, channels) ==
  Ratio(SquaredDiffFrom(originalPixels, compressedPixels, 1),
        (Len(originalPixels) \div channels) * channels)

\* Math.round(100 * 20 * log10(255 / sqrt(total / samples))) for the mean squared
\* errors the buffers above can have.
PsnrOfMse(total, samples) ==
  CASE total * 3 = 100 * samples -> 3290
    [] total * 3 = 200 * samples -> 2989
    [] total = 100 * samples     -> 2813
    [] total * 6 = 100 * samples -> 3591
    [] total * 2 = 100 * samples -> 3114
    [] total * 6 = 500 * samples -> 2892

CalculatePSNR(mse) ==
  IF mse.num = 0 THEN Infinity ELSE PsnrOfMse(mse.num, mse.den)

EstimateSSIM(psnr) ==
  IF psnr = Infinity THEN 1000
  ELSE 500 + (Max(0, Min(5000, psnr)) + 5) \div 10

PsnrTermOverPoor(psnr) ==
  IF psnr >= ExcellentPsnr THEN 6000
  ELSE IF psnr >= GoodPsnr THEN 4500 + 3 * (psnr - GoodPsnr)
  ELSE IF psnr >= AcceptablePsnr THEN 3000 + 3 * (psnr - AcceptablePsnr)
  ELSE Max(0, (6 * psnr) \div 5)

\* 0.6 * psnrScore, in hundredths of a point.
PsnrTerm(psnr) ==
  IF psnr >= ExcellentPsnr THEN 6000
  ELSE IF psnr >= GoodPsnr THEN 4500 + 3 * (psnr - GoodPsnr)
  ELSE IF psnr >= AcceptablePsnr THEN 3000 + 3 * (psnr - AcceptablePsnr)
  ELSE Max(0, psnr)

CalculateQualityScoreUnclamped(psnr, ssim, ratio) ==
  LET d == ratio.den
      x == PsnrTerm(psnr) * d + 3 * ssim * d + 10 * Min(10 * d, 15 * ratio.num)
  IN (2 * x + 100 * d) \div (200 * d)

\* calculateQualityScore: the total, times 100 * ratio.den, is
\*   PsnrTerm * den + 3 * ssim * den + 10 * min(10 * den, 15 * num);
\* Math.round(x) is floor(x + 1/2).
CalculateQualityScore(psnr, ssim, ratio) ==
  LET d == ratio.den
      x == PsnrTerm(psnr) * d + 3 * ssim * d + 10 * Min(10 * d, 15 * ratio.num)
      clamped == Min(10000 * d, Max(0, x))
  IN (2 * clamped + 100 * d) \div (200 * d)

GetQualityGradeByPsnr(psnr, ssim, qualityScore) ==
  IF psnr >= ExcellentPsnr THEN "excellent"
  ELSE IF psnr >= GoodPsnr THEN "good"
  ELSE IF psnr >= AcceptablePsnr THEN "acceptable"
  ELSE IF psnr >= PoorPsnr THEN "poor"
  ELSE "unacceptable"

GetQualityGrade(psnr, ssim, qualityScore) ==
  IF psnr >= ExcellentPsnr /\ qualityScore >= ExcellentScore THEN "excellent"
  ELSE IF psnr >= GoodPsnr /\ qualityScore >= GoodScore THEN "good"
  ELSE IF psnr >= AcceptablePsnr /\ qualityScore >= AcceptableScore THEN "acceptable"
  ELSE IF psnr >= PoorPsnr THEN "poor"
  ELSE "unacceptable"

\* The value compareImageQuality returns.
QualityResult(originalSize, compressedSize, originalPixels, compressedPixels) ==
  LET compressionRatio == Ratio(originalSize - compressedSize, originalSize)
      mse == CalculateMSE(originalPixels, compressedPixels, Channels)
      psnr == CalculatePSNR(mse)
      ssim == EstimateSSIM(psnr)
      qualityScore == CalculateQualityScore(psnr, ssim, compressionRatio)
  IN [psnr |-> psnr, mse |-> mse, ssim |-> ssim,
      compressionRatio |-> compressionRatio, qualityScore |-> qualityScore,
      qualityGrade |-> GetQualityGrade(psnr, ssim, qualityScore)]

\* What batchQualityAnalysis records for a pair whose comparison threw.
ErrorSentinel ==
  [psnr |-> 0, mse |-> Infinity, ssim |-> 0, compressionRatio |-> Ratio(0, 1),
   qualityScore |-> 0, qualityGrade |-> "error"]

\* a <= b for exact fractions with positive denominators.
RatioLeq(a, b) == a.num * b.den <= b.num * a.den

DefaultCriteria ==
  [minPSNR |-> 3500, minQualityScore |-> 75,
   maxCompressionRatio |-> Ratio(64, 100), minCompressionRatio |-> Ratio(60, 100)]

\* The destructuring of `criteria` with its defaults.
MergeCriteria(overrides) ==
  [k \in DOMAIN DefaultCriteria |->
     IF k \in DOMAIN overrides THEN overrides[k] ELSE DefaultCriteria[k]]

QualityChecks(r, c) ==
  [psnr |-> r.psnr >= c.minPSNR,
   qualityScore |-> r.qualityScore >= c.minQualityScore,
   compressionRatio |-> /\ RatioLeq(c.minCompressionRatio, r.compressionRatio)
                        /\ RatioLeq(r.compressionRatio, c.maxCompressionRatio)]

\* The warnings validateQualityCriteria prints, one per failed check, in order.
Warnings(checks, passed) ==
  IF passed THEN <<>>
  ELSE (IF ~checks.psnr THEN <<"psnr">> ELSE <<>>)
       \o (IF ~checks.qualityScore THEN <<"qualityScore">> ELSE <<>>)
       \o (IF ~checks.compressionRatio THEN <<"compressionRatio">> ELSE <<>>)

ValidateQualityCriteriaNoUpperRatio(r, criteria) ==
  LET c == MergeCriteria(criteria)
      checks == [QualityChecks(r, c) EXCEPT
                   !.compressionRatio = RatioLeq(c.minCompressionRatio, r.compressionRatio)]
      passed == checks.psnr /\ checks.qualityScore /\ checks.compressionRatio
  IN [passed |-> passed, warned |-> Warnings(checks, passed)]

ValidateQualityCriteria(r, criteria) ==
  LET c == MergeCriteria(criteria)
      checks == QualityChecks(r, c)
      passed == checks.psnr /\ checks.qualityScore /\ checks.compressionRatio
  IN [passed |-> passed, warned |-> Warnings(checks, passed)]

QualityIdle == [stage |-> "idle"]

\* Raw buffers of whole RGB pixels, of several lengths.
MseBuffers == UNION {[1..(Channels * n) -> PixelValues] : n \in 1..MaxMsePixels}

MseInit ==
  qual \in [stage : {"buffers"}, originalPixels : MseBuffers,
            compressedPixels : MseBuffers, channels : {1, Channels}]

\* calculateMSE on buffers of the same length.
CallCalculateMSE ==
  /\ qual.stage = "buffers"
  /\ Len(qual.originalPixels) = Len(qual.compressedPixels)
  /\ qual' = [stage |-> "done", originalPixels |-> qual.originalPixels,
              compressedPixels |-> qual.compressedPixels, channels |-> qual.channels,
              call |-> "mse",
              result |-> CalculateMSE(qual.originalPixels, qual.compressedPixels,
                                      qual.channels)]
  /\ UNCHANGED <<batchVars, opt, conv, dir, gui>>

\* calculateMSE on buffers of different lengths: the throw of its first line.
CallCalculateMSEThrows ==
  /\ qual.stage = "buffers"
  /\ Len(qual.originalPixels) # Len(qual.compressedPixels)
  /\ qual' = [stage |-> "threw", originalPixels |-> qual.originalPixels,
              compressedPixels |-> qual.compressedPixels, channels |-> qual.channels,
              call |-> "mse", error |-> "pixel array sizes do not match"]
  /\ UNCHANGED <<batchVars, opt, conv, dir, gui>>

\* The pairs of files batchQualityAnalysis is given.
AnalysisPairs ==
  { [originalSize |-> 100, compressedSize |-> 40,
     originalPixels |-> <<255, 255, 255>>, compressedPixels |-> <<255, 255, 255>>],
    [originalSize |-> 100, compressedSize |-> 40,
     originalPixels |-> <<255, 255, 255>>, compressedPixels |-> <<245, 255, 255>>],
    [originalSize |-> 100, compressedSize |-> 150,
     originalPixels |-> <<255, 245, 255>>, compressedPixels |-> <<245, 255, 245>>] }

PairLists == UNION {[1..n -> AnalysisPairs] : n \in 0..MaxPairs}

\* error.message of what compareImageQuality throws: its prefix and the cause.
CompareErrorMessage(c) == <<"quality comparison failed", c>>

\* The element batchQualityAnalysis pushes for pair number i (from 0).
AnalysedResult(pair, i) ==
  LET r == QualityResult(pair.originalSize, pair.compressedSize,
                         pair.originalPixels, pair.compressedPixels)
  IN [psnr |-> r.psnr, mse |-> r.mse, ssim |-> r.ssim,
      compressionRatio |-> r.compressionRatio, qualityScore |-> r.qualityScore,
      qualityGrade |-> r.qualityGrade, batchIndex |-> i]

SentinelResultWithoutMessage(message, i) ==
  [psnr |-> 0, mse |-> Infinity, ssim |-> 0, compressionRatio |-> Ratio(0, 1),
   qualityScore |-> 0, qualityGrade |-> "error", error |-> <<>>, batchIndex |-> i]

SentinelResult(message, i) ==
  [psnr |-> ErrorSentinel.psnr, mse |-> ErrorSentinel.mse, ssim |-> ErrorSentinel.ssim,
   compressionRatio |-> ErrorSentinel.compressionRatio,
   qualityScore |-> ErrorSentinel.qualityScore,
   qualityGrade |-> ErrorSentinel.qualityGrade, error |-> message, batchIndex |-> i]

RECURSIVE SumField(_, _, _)
SumField(rs, S, field) ==
  IF S = {} THEN 0
  ELSE LET i == CHOOSE x \in S : TRUE IN rs[i][field] + SumField(rs, S \ {i}, field)

\* generateQualityReport: the numbers its text is made of.
GenerateQualityReport(rs) ==
  LET valid == {i \in DOMAIN rs : rs[i].psnr > 0}
      count(grade) == Cardinality({i \in valid : rs[i].qualityGrade = grade})
  IN IF valid = {} THEN [kind |-> "none"]
     ELSE IF Len(rs) = 1
       THEN [kind |-> "single", qualityGrade |-> rs[1].qualityGrade,
             qualityScore |-> rs[1].qualityScore, psnr |-> rs[1].psnr,
             ssim |-> rs[1].ssim, compressionRatio |-> rs[1].compressionRatio]
       ELSE [kind |-> "batch", total |-> Len(rs),
             succeeded |-> Cardinality(valid),
             failed |-> Len(rs) - Cardinality(valid),
             avgScore |-> Ratio(SumField(rs, valid, "qualityScore"), Cardinality(valid)),
             avgPSNR |-> IF \E i \in valid : rs[i].psnr = Infinity THEN Ratio(Infinity, 1)
                         ELSE Ratio(SumField(rs, valid, "psnr"), Cardinality(valid)),
             excellent |-> count("excellent"), good |-> count("good"),
             acceptable |-> count("acceptable"), poor |-> count("poor")]

BatchAnalysisInit ==
  qual \in [stage : {"loop"}, pairs : PairLists, results : {<<>>}, causes : {<<>>}]

\* One turn of the loop of batchQualityAnalysis: compareImageQuality returns.
AnalysePair ==
  /\ qual.stage = "loop"
  /\ Len(qual.results) < Len(qual.pairs)
  /\ LET i == Len(qual.results) IN
     qual' = [qual EXCEPT !.results = Append(@, AnalysedResult(qual.pairs[i + 1], i)),
                          !.causes = Append(@, "none")]
  /\ UNCHANGED <<batchVars, opt, conv, dir, gui>>

\* One turn of the loop: compareImageQuality throws and the catch block runs.
AnalysePairCatch(c) ==
  /\ qual.stage = "loop"
  /\ Len(qual.results) < Len(qual.pairs)
  /\ LET i == Len(qual.results) IN
     qual' = [qual EXCEPT !.results = Append(@, SentinelResult(CompareErrorMessage(c), i)),
                          !.causes = Append(@, c)]
  /\ UNCHANGED <<batchVars, opt, conv, dir, gui>>

\* The loop is over: batchQualityAnalysis returns its results.
BatchAnalysisReturn ==
  /\ qual.stage = "loop"
  /\ Len(qual.results) = Len(qual.pairs)
  /\ qual' = [stage |-> "returned", pairs |-> qual.pairs, results |-> qual.results,
              causes |-> qual.causes]
  /\ UNCHANGED <<batchVars, opt, conv, dir, gui>>

\* generateQualityReport on what batchQualityAnalysis returned.
CallGenerateQualityReport ==
  /\ qual.stage = "returned"
  /\ qual' = [stage |-> "reported", pairs |-> qual.pairs, results |-> qual.results,
              causes |-> qual.causes, report |-> GenerateQualityReport(qual.results)]
  /\ UNCHANGED <<batchVars, opt, conv, dir, gui>>

\* Arguments of the analyser's pure functions.
Psnrs == {-500, 0, 1500, 2499, 2500, 2999, 3000, 3001, 3499, 3500, 3999, 4000,
          4500, Infinity}
Ssims == {0, 500, 850, 1000}
CompressionRatios == {Ratio(-1, 2), Ratio(0, 1), Ratio(1, 5), Ratio(3, 5), Ratio(62, 100),
                      Ratio(16, 25), Ratio(13, 20), Ratio(3, 2)}
QualityScores == {0, 40, 59, 60, 74, 75, 89, 90, 100}
CriteriaOverrides ==
  { [minPSNR |-> 3500],
    [minPSNR |-> 2000, minQualityScore |-> 40,
     maxCompressionRatio |-> Ratio(70, 100), minCompressionRatio |-> Ratio(20, 100)],
    [minQualityScore |-> 60, maxCompressionRatio |-> Ratio(2, 1)] }

MetricsInit ==
  qual \in [stage : {"args"}, psnr : Psnrs, ssim : Ssims, ratio : CompressionRatios,
            score : QualityScores, criteria : CriteriaOverrides]

MetricsReturned(call, r) ==
  [stage |-> "done", psnr |-> qual.psnr, ssim |-> qual.ssim, ratio |-> qual.ratio,
   score |-> qual.score, criteria |-> qual.criteria, call |-> call, result |-> r]

CallCalculateQualityScore ==
  /\ qual.stage = "args"
  /\ qual' = MetricsReturned("score", CalculateQualityScore(qual.psnr, qual.ssim, qual.ratio))
  /\ UNCHANGED <<batchVars, opt, conv, dir, gui>>

CallGetQualityGrade ==
  /\ qual.stage = "args"
  /\ qual' = MetricsReturned("grade", GetQualityGrade(qual.psnr, qual.ssim, qual.score))
  /\ UNCHANGED <<batchVars, opt, conv, dir, gui>>

CallValidateQualityCriteria ==
  /\ qual.stage = "args"
  /\ qual' = MetricsReturned("validate",
                ValidateQualityCriteria(
                  [psnr |-> qual.psnr, qualityScore |-> qual.score,
                   compressionRatio |-> qual.ratio],
                  qual.criteria))
  /\ UNCHANGED <<batchVars, opt, conv, dir, gui>>

QualityInit ==
  qual \in [stage : {"input"}, originalSize : OriginalSizes,
            compressedSize : CompressedSizes,
            originalPixels : PixelBuffers, compressedPixels : PixelBuffers]

\* compareImageQuality, when stat, metadata and both decodes succeed.
CompareImageQuality ==
  /\ qual.stage = "input"
  /\ Len(qual.originalPixels) = Len(qual.compressedPixels)
  /\ qual' = [stage |-> "done", originalSize |-> qual.originalSize,
              compressedSize |-> qual.compressedSize,
              originalPixels |-> qual.originalPixels,
              compressedPixels |-> qual.compressedPixels,
              result |-> QualityResult(qual.originalSize, qual.compressedSize,
                                       qual.originalPixels, qual.compressedPixels)]
  /\ UNCHANGED <<batchVars, opt, conv, dir, gui>>

\* compareImageQuality, when one of them (or calculateMSE) throws.
CompareImageQualityThrows ==
  /\ qual.stage = "input"
  /\ qual' = [stage |-> "threw", originalSize |-> qual.originalSize,
              compressedSize |-> qual.compressedSize,
              originalPixels |-> qual.originalPixels,
              compressedPixels |-> qual.compressedPixels]
  /\ UNCHANGED <<batchVars, opt, conv, dir, gui>>

(***************************************************************************)
(* Optimizer (src/unnamed/part_001).  targetCompressionRatio is kept in    *)
(* percent, an estimated PSNR in hundredths of a dB, a predicted           *)
(* compression ratio as an exact fraction.  The target ratios drawn are    *)
(* ones for which (1 - target) * 30 is the same in binary floating point   *)
(* as in exact arithmetic.                                                 *)
(***************************************************************************)
DefaultOptions ==
  [targetCompressionRatio |-> 62, minPSNR |-> 35, maxQuality |-> 95,
   minQuality |-> 45, maxEffort |-> 6, allowLossless |-> FALSE]

\* { ...DEFAULT_OPTIONS, ...options }
MergeOptions(overrides) ==
  [k \in DOMAIN DefaultOptions |->
     IF k \in DOMAIN overrides THEN overrides[k] ELSE DefaultOptions[k]]

OptionOverrides ==
  { [minPSNR |-> 35],
    [allowLossless |-> TRUE],
    [maxQuality |-> 70],
    [minQuality |-> 30, maxQuality |-> 100],
    [minQuality |-> 80, maxQuality |-> 95],
    [targetCompressionRatio |-> 25],
    [targetCompressionRatio |-> 50, allowLossless |-> TRUE] }

KB == 1024
MB == 1048576

FileSizes == {400000, 511999, 512000, 1048576, 1048577, 1500000, 2097151, 2097152,
              5242880, 5242881, 6000000, 10485760, 10485761, 12000000}
Dimensions == {<<40, 40>>, <<100, 100>>, <<1000, 800>>, <<1920, 1080>>}
FrameCounts == {1, 10, 30, 60}

\* analyzeGIF, from the file's size and the decoder's metadata.
AnalyzeGIF(fileSize, width, height) ==
  [fileSize |-> fileSize, width |-> width, height |-> height,
   frames |-> Min(Max(1, fileSize \div (width * height * 3)), 100)]

PredictQualityFromSize(width, height, frames) ==
  LET totalPixels == width * height * frames IN
  IF totalPixels < 50000 THEN 85
  ELSE IF totalPixels < 200000 THEN 80
  ELSE IF totalPixels < 800000 THEN 75
  ELSE IF totalPixels < 2000000 THEN 70
  ELSE 65

\* Math.floor(fileSize * (1 - ratio)), without overflowing 32 bits.
PredictedSize(fileSize, ratio) ==
  (fileSize \div ratio.den) * (ratio.den - ratio.num)
    + ((fileSize % ratio.den) * (ratio.den - ratio.num)) \div ratio.den

OptimizeForCompressionClampLast(analysis, opts) ==
  LET baseQuality == PredictQualityFromSize(analysis.width, analysis.height, analysis.frames)
      qualityAdjustment == ((100 - opts.targetCompressionRatio) * 30) \div 100
      q0 == baseQuality - qualityAdjustment
      q1 == IF analysis.width * analysis.height > 1000000 THEN q0 - 10 ELSE q0
      q2 == IF analysis.frames > 20 THEN q1 - 5 ELSE q1
      recommendedQuality == Max(opts.minQuality, Min(opts.maxQuality, q2))
      estimatedCompressionRatio == Ratio(Min(800, 300 + (100 - recommendedQuality) * 4), 1000)
  IN [quality |-> recommendedQuality, effort |-> opts.maxEffort, lossless |-> FALSE,
      predictedSize |-> PredictedSize(analysis.fileSize, estimatedCompressionRatio),
      compressionRatio |-> estimatedCompressionRatio,
      estimatedPSNR |-> Max(3000, 2500 + recommendedQuality * 20),
      optimizationStrategy |-> "compression-focused"]

OptimizeForCompression(analysis, opts) ==
  LET baseQuality == PredictQualityFromSize(analysis.width, analysis.height, analysis.frames)
      qualityAdjustment == ((100 - opts.targetCompressionRatio) * 30) \div 100
      q0 == Max(opts.minQuality, Min(opts.maxQuality, baseQuality - qualityAdjustment))
      q1 == IF analysis.width * analysis.height > 1000000
              THEN Max(opts.minQuality, q0 - 10) ELSE q0
      recommendedQuality == IF analysis.frames > 20
                              THEN Max(opts.minQuality, q1 - 5) ELSE q1
      estimatedCompressionRatio == Ratio(Min(800, 300 + (100 - recommendedQuality) * 4), 1000)
  IN [quality |-> recommendedQuality, effort |-> opts.maxEffort, lossless |-> FALSE,
      predictedSize |-> PredictedSize(analysis.fileSize, estimatedCompressionRatio),
      compressionRatio |-> estimatedCompressionRatio,
      estimatedPSNR |-> Max(3000, 2500 + recommendedQuality * 20),
      optimizationStrategy |-> "compression-focused"]

OptimizeForQualityTiersAtOrAbove(analysis, opts) ==
  LET recommendedQuality == IF analysis.fileSize >= 5 * MB THEN 80
                            ELSE IF analysis.fileSize >= 1 * MB THEN 85
                            ELSE 90
      estimatedCompressionRatio == Ratio(Min(600, 200 + (100 - recommendedQuality) * 3), 1000)
  IN IF opts.allowLossless /\ analysis.fileSize < 2 * MB
       THEN [quality |-> 100, effort |-> opts.maxEffort, lossless |-> TRUE,
             predictedSize |-> PredictedSize(analysis.fileSize, Ratio(300, 1000)),
             compressionRatio |-> Ratio(300, 1000),
             estimatedPSNR |-> Infinity,
             optimizationStrategy |-> "quality-focused-lossless"]
       ELSE [quality |-> recommendedQuality, effort |-> opts.maxEffort, lossless |-> FALSE,
             predictedSize |-> PredictedSize(analysis.fileSize, estimatedCompressionRatio),
             compressionRatio |-> estimatedCompressionRatio,
             estimatedPSNR |-> Max(opts.minPSNR * 100, 3000 + recommendedQuality * 25),
             optimizationStrategy |-> "quality-focused"]

OptimizeForQuality(analysis, opts) ==
  LET recommendedQuality == IF analysis.fileSize > 5 * MB THEN 80
                            ELSE IF analysis.fileSize > 1 * MB THEN 85
                            ELSE 90
      estimatedCompressionRatio == Ratio(Min(600, 200 + (100 - recommendedQuality) * 3), 1000)
  IN IF opts.allowLossless /\ analysis.fileSize < 2 * MB
       THEN [quality |-> 100, effort |-> opts.maxEffort, lossless |-> TRUE,
             predictedSize |-> PredictedSize(analysis.fileSize, Ratio(300, 1000)),
             compressionRatio |-> Ratio(300, 1000),
             estimatedPSNR |-> Infinity,
             optimizationStrategy |-> "quality-focused-lossless"]
       ELSE [quality |-> recommendedQuality, effort |-> opts.maxEffort, lossless |-> FALSE,
             predictedSize |-> PredictedSize(analysis.fileSize, estimatedCompressionRatio),
             compressionRatio |-> estimatedCompressionRatio,
             estimatedPSNR |-> Max(opts.minPSNR * 100, 3000 + recommendedQuality * 25),
             optimizationStrategy |-> "quality-focused"]

OptimizeBalanced(analysis, opts) ==
  LET compressionResult == OptimizeForCompression(analysis, opts)
      qualityResult == OptimizeForQuality(analysis, opts)
      balancedQuality == (compressionResult.quality + qualityResult.quality) \div 2
      balancedCompressionRatio ==
        Ratio(compressionResult.compressionRatio.num + qualityResult.compressionRatio.num, 2000)
  IN [quality |-> balancedQuality, effort |-> opts.maxEffort, lossless |-> FALSE,
      predictedSize |-> PredictedSize(analysis.fileSize, balancedCompressionRatio),
      compressionRatio |-> balancedCompressionRatio,
      estimatedPSNR |-> Max(opts.minPSNR * 100, 3000 + balancedQuality * 25),
      optimizationStrategy |-> "balanced"]

\* The strategy choice of optimizeAdaptive.
SelectStrategyAreaFirst(analysis) ==
  IF analysis.fileSize > 10 * MB THEN "compression"
  ELSE IF analysis.width * analysis.height > 2000000 THEN "compression"
  ELSE IF analysis.fileSize < 500 * KB THEN "quality"
  ELSE IF analysis.frames > 50 THEN "compression"
  ELSE "balanced"

SelectStrategy(analysis) ==
  IF analysis.fileSize > 10 * MB THEN "compression"
  ELSE IF analysis.fileSize < 500 * KB THEN "quality"
  ELSE IF analysis.width * analysis.height > 2000000 THEN "compression"
  ELSE IF analysis.frames > 50 THEN "compression"
  ELSE "balanced"

LargeFileReason == "large file (>10MB)"
SmallFileReason == "small file (<500KB)"
HighResolutionReason == "high resolution image"
ManyFramesReason == "many frames (>50)"
DefaultReason == "default balanced strategy"

GetStrategyReasonDecidingOnly(analysis, strategy) ==
  IF analysis.fileSize > 10 * MB THEN <<LargeFileReason>>
  ELSE IF analysis.fileSize < 500 * KB THEN <<SmallFileReason>>
  ELSE IF analysis.width * analysis.height > 2000000 THEN <<HighResolutionReason>>
  ELSE IF analysis.frames > 50 THEN <<ManyFramesReason>>
  ELSE <<DefaultReason>>

\* getStrategyReason: the reasons that are joined with ", ".
GetStrategyReason(analysis, strategy) ==
  LET reasons ==
        (IF analysis.fileSize > 10 * MB THEN <<LargeFileReason>> ELSE <<>>)
        \o (IF analysis.fileSize < 500 * KB THEN <<SmallFileReason>> ELSE <<>>)
        \o (IF analysis.width * analysis.height > 2000000
              THEN <<HighResolutionReason>> ELSE <<>>)
        \o (IF analysis.frames > 50 THEN <<ManyFramesReason>> ELSE <<>>)
  IN IF Len(reasons) > 0 THEN reasons ELSE <<DefaultReason>>

\* What optimizeAdaptive returns for an analysis.
AdaptiveResult(analysis, opts) ==
  LET strategy == SelectStrategy(analysis)
      r == CASE strategy = "compression" -> OptimizeForCompression(analysis, opts)
             [] strategy = "quality" -> OptimizeForQuality(analysis, opts)
             [] OTHER -> OptimizeBalanced(analysis, opts)
  IN [quality |-> r.quality, effort |-> r.effort, lossless |-> r.lossless,
      predictedSize |-> r.predictedSize, compressionRatio |-> r.compressionRatio,
      estimatedPSNR |-> r.estimatedPSNR,
      optimizationStrategy |-> r.optimizationStrategy,
      selectedStrategy |-> strategy,
      selectionReason |-> GetStrategyReason(analysis, strategy)]

OptimizerIdle == [stage |-> "idle"]

\* The arguments of one optimizer call: the image's attributes and the options.
OptimizerInit ==
  opt \in [stage : {"input"}, fileSize : FileSizes, dims : Dimensions,
           frames : FrameCounts, options : OptionOverrides]

Analysis == [fileSize |-> opt.fileSize, width |-> opt.dims[1], height |-> opt.dims[2],
             frames |-> opt.frames]

Returned(call, analysis, r) ==
  [stage |-> "done", fileSize |-> opt.fileSize, dims |-> opt.dims, frames |-> opt.frames,
   options |-> opt.options, call |-> call, analysis |-> analysis, result |-> r]

CallOptimizeForCompression ==
  /\ opt.stage = "input"
  /\ opt' = Returned("compression", Analysis,
                     OptimizeForCompression(Analysis, MergeOptions(opt.options)))
  /\ UNCHANGED <<batchVars, qual, conv, dir, gui>>

CallOptimizeForQuality ==
  /\ opt.stage = "input"
  /\ opt' = Returned("quality", Analysis,
                     OptimizeForQuality(Analysis, MergeOptions(opt.options)))
  /\ UNCHANGED <<batchVars, qual, conv, dir, gui>>

CallOptimizeBalanced ==
  /\ opt.stage = "input"
  /\ opt' = Returned("balanced", Analysis,
                     OptimizeBalanced(Analysis, MergeOptions(opt.options)))
  /\ UNCHANGED <<batchVars, qual, conv, dir, gui>>

\* optimizeAdaptive(inputPath, options), when analyzeGIF succeeds.
CallOptimizeAdaptive ==
  /\ opt.stage = "input"
  /\ LET analysis == AnalyzeGIF(opt.fileSize, opt.dims[1], opt.dims[2]) IN
     opt' = Returned("adaptive", analysis,
                     AdaptiveResult(analysis, MergeOptions(opt.options)))
  /\ UNCHANGED <<batchVars, qual, conv, dir, gui>>

\* optimizeAdaptive, when analyzeGIF throws.
CallOptimizeAdaptiveThrows ==
  /\ opt.stage = "input"
  /\ opt' = [stage |-> "threw", fileSize |-> opt.fileSize, dims |-> opt.dims,
             frames |-> opt.frames, options |-> opt.options, call |-> "adaptive"]
  /\ UNCHANGED <<batchVars, qual, conv, dir, gui>>

\* validateOptimization(result, options): false only for an estimated PSNR
\* below minPSNR; the compression-ratio test only warns.
ValidateOptimization(r, overrides) ==
  LET opts == MergeOptions(overrides) IN
  ~(r.estimatedPSNR < opts.minPSNR * 100)

\* validateOptimization on what the call returned, with the call's options.
CallValidateOptimization ==
  /\ opt.stage = "done"
  /\ opt' = [stage |-> "validated", fileSize |-> opt.fileSize, dims |-> opt.dims,
             frames |-> opt.frames, options |-> opt.options, call |-> opt.call,
             analysis |-> opt.analysis, result |-> opt.result,
             valid |-> ValidateOptimization(opt.result, opt.options)]
  /\ UNCHANGED <<batchVars, qual, conv, dir, gui>>

(***************************************************************************)
(* convertDirectory (src/src/batch-processor.js).  A path is the sequence   *)
(* of its components; a file name is kept as its base and its extension.   *)
(***************************************************************************)
DirectoryIdle == [stage |-> "idle"]
GuiIdle == [stage |-> "idle"]

FileEntries ==
  { [kind |-> "file", name |-> [base |-> "a", ext |-> ".gif"], children |-> <<>>],
    [kind |-> "file", name |-> [base |-> "b", ext |-> ".GIF"], children |-> <<>>],
    [kind |-> "file", name |-> [base |-> "c", ext |-> ".txt"], children |-> <<>>] }

\* What readdir can return for a directory with at most `depth` levels below it:
\* up to two entries with different names.
RECURSIVE Listings(_)
Listings(depth) ==
  LET entries ==
        FileEntries \cup
          (IF depth = 0 THEN {}
           ELSE {[kind |-> "dir", name |-> [base |-> "sub", ext |-> ""], children |-> t]
                   : t \in Listings(depth - 1)})
  IN {<<>>} \cup {<<e>> : e \in entries}
       \cup {pair \in entries \X entries : pair[1].name # pair[2].name}

\* String.prototype.toLowerCase on the extensions of the model.
ToLowerCase(ext) == IF ext = ".GIF" THEN ".gif" ELSE ext

RECURSIVE FindGifFilesAlways(_, _, _)
FindGifFilesAlways(inputDir, entries, recursive) ==
  IF entries = <<>> THEN <<>>
  ELSE LET entry == Head(entries)
           fullPath == Append(inputDir, entry.name)
           found == IF entry.kind = "dir"
                      THEN FindGifFilesAlways(fullPath, entry.children, recursive)
                    ELSE IF entry.kind = "file" /\ ToLowerCase(entry.name.ext) = ".gif"
                      THEN <<fullPath>>
                    ELSE <<>>
       IN found \o FindGifFilesAlways(inputDir, Tail(entries), recursive)

\* findGifFiles when every readdir succeeds.
RECURSIVE FindGifFiles(_, _, _)
FindGifFiles(inputDir, entries, recursive) ==
  IF entries = <<>> THEN <<>>
  ELSE LET entry == Head(entries)
           fullPath == Append(inputDir, entry.name)
           found == IF entry.kind = "dir" /\ recursive
                      THEN FindGifFiles(fullPath, entry.children, recursive)
                    ELSE IF entry.kind = "file" /\ ToLowerCase(entry.name.ext) = ".gif"
                      THEN <<fullPath>>
                    ELSE <<>>
       IN found \o FindGifFiles(inputDir, Tail(entries), recursive)

DirectoryInit ==
  dir \in [stage : {"called"}, entries : Listings(MaxDepth), recursive : BOOLEAN]

\* convertDirectory: findGifFiles returns; an empty list ends the call with [],
\* any other list is passed to convertFiles.
ConvertDirectory ==
  /\ dir.stage = "called"
  /\ LET gifFiles == FindGifFiles(<<"in">>, dir.entries, dir.recursive) IN
     dir' = [stage |-> IF Len(gifFiles) = 0 THEN "returned" ELSE "converting",
             entries |-> dir.entries, recursive |-> dir.recursive,
             gifFiles |-> gifFiles]
  /\ UNCHANGED <<batchVars, qual, opt, conv, gui>>

\* convertDirectory when readdir of the input directory throws: findGifFiles
\* logs the error and returns an empty list.
ConvertDirectoryUnreadable ==
  /\ dir.stage = "called"
  /\ dir' = [stage |-> "returned", entries |-> dir.entries, recursive |-> dir.recursive,
             gifFiles |-> <<>>]
  /\ UNCHANGED <<batchVars, qual, opt, conv, gui>>

(***************************************************************************)
(* The GUI's main process: ipcMain.handle('convert-files').  The handler    *)
(* runs from one await to the next; the only awaits are the two imports    *)
(* and the conversion call of the current file.                            *)
(***************************************************************************)
MaxGuiFiles == 3

\* file.replace(/\.gif$/i, '.webp')
GuiOutputPath(file) ==
  IF ToLowerCase(PathOf(file).ext) = ".gif"
    THEN [PathOf(file) EXCEPT !.ext = ".webp"]
    ELSE PathOf(file)

\* event.sender.send('conversion-progress', {fileIndex, status, ...})
SendProgress(events, fileIndex, status) ==
  Append(events, [fileIndex |-> fileIndex, status |-> status])

\* The try block after the awaited conversion returned r.
GuiCompleted(g, r) ==
  [g EXCEPT !.results = Append(@, [success |-> TRUE, inputPath |-> g.files[g.i],
                                   outputPath |-> GuiOutputPath(g.files[g.i]),
                                   outputSize |-> r]),
            !.events = SendProgress(@, g.i - 1, "completed"),
            !.i = @ + 1]

GuiCatchAndBreak(g, c) ==
  [g EXCEPT !.results = Append(@, [success |-> FALSE, inputPath |-> g.files[g.i],
                                   error |-> ErrorMessage(c)]),
            !.events = SendProgress(@, g.i - 1, "error"),
            !.i = Len(g.files) + 1]

\* The catch block of one file; the loop goes on with the next file.
GuiCatch(g, c) ==
  [g EXCEPT !.results = Append(@, [success |-> FALSE, inputPath |-> g.files[g.i],
                                   error |-> ErrorMessage(c)]),
            !.events = SendProgress(@, g.i - 1, "error"),
            !.i = @ + 1]

\* The head of the loop: past the last file the handler returns results,
\* otherwise it sends 'processing' for file i and awaits its conversion.
GuiLoop(g) ==
  IF g.i > Len(g.files)
    THEN [g EXCEPT !.stage = "returned"]
    ELSE [g EXCEPT !.stage = "converting",
                   !.events = SendProgress(@, g.i - 1, "processing")]

GuiInit ==
  gui \in {[stage |-> "invoked", files |-> [k \in 1..n |-> k], i |-> 1,
            results |-> <<>>, events |-> <<>>] : n \in 0..MaxGuiFiles}

\* The two dynamic imports settle: the loop starts, or the handler rethrows.
GuiImported(ok) ==
  /\ gui.stage = "invoked"
  /\ gui' = IF ok THEN GuiLoop(gui) ELSE [gui EXCEPT !.stage = "threw"]
  /\ UNCHANGED <<batchVars, qual, opt, conv, dir>>

\* The conversion of file i returned.
GuiConvertReturned(r) ==
  /\ gui.stage = "converting"
  /\ gui' = GuiLoop(GuiCompleted(gui, r))
  /\ UNCHANGED <<batchVars, qual, opt, conv, dir>>

\* The conversion of file i threw.
GuiConvertThrew(c) ==
  /\ gui.stage = "converting"
  /\ gui' = GuiLoop(GuiCatch(gui, c))
  /\ UNCHANGED <<batchVars, qual, opt, conv, dir>>

(***************************************************************************)
(* One GifToWebPConverter and one convertFile call on it.                  *)
(***************************************************************************)
ConverterIdle == [stage |-> "idle"]

DefaultQuality == 75
DefaultEffort == 6

\* The options objects a converter is constructed with: each key present or not.
ConverterArguments ==
  [hasQuality : BOOLEAN, quality : {0, 20, 29, 30, 75, 100, 101, 150},
   hasEffort : BOOLEAN, effort : {-1, 0, 6, 7},
   hasLossless : BOOLEAN, lossless : BOOLEAN]

\* `options.key || dflt`, then `...options` on top of it.
OrDefault(has, v, dflt) == IF has /\ v # 0 THEN v ELSE dflt
SpreadOver(has, v, under) == IF has THEN v ELSE under

\* this.options after the constructor.
ConverterOptions(o) ==
  [quality |-> SpreadOver(o.hasQuality, o.quality,
                          OrDefault(o.hasQuality, o.quality, DefaultQuality)),
   effort |-> SpreadOver(o.hasEffort, o.effort,
                         OrDefault(o.hasEffort, o.effort, DefaultEffort)),
   lossless |-> SpreadOver(o.hasLossless, o.lossless,
                           IF o.hasLossless /\ o.lossless THEN TRUE ELSE FALSE)]

\* sharp's .webp(options) takes an integer quality in 1..100 and an integer
\* effort in 0..6 and throws on anything else.
SharpWebpAccepts(o) ==
  /\ 1 <= o.quality /\ o.quality <= 100
  /\ 0 <= o.effort /\ o.effort <= 6

\* convertFile's steps in the order of its code, and the outputs that exist
\* once a step has been reached: validateInputFile touches nothing, ensureDir
\* makes the output directory, writeFile the output file.
OutputsAtEnsureDirFirst(step) ==
  CASE step = "validateInputFile" -> {"dir"}
    [] step = "ensureDir" -> {"dir"}
    [] step = "toBuffer" -> {"dir"}
    [] step = "writeFile" -> {"dir", "file"}

OutputsAt(step) ==
  CASE step = "validateInputFile" -> {}
    [] step = "ensureDir" -> {"dir"}
    [] step = "toBuffer" -> {"dir"}
    [] step = "writeFile" -> {"dir", "file"}

\* How the encode and the write after it end: both succeed, sharp throws, or
\* the file is written and the stat after it throws.
EncodeOutcomes == {"ok", "codec", "stat"}

ConverterInit ==
  conv \in {[stage |-> "constructed", options |-> ConverterOptions(o), stats |-> ZeroStats,
             written |-> {}]
             : o \in ConverterArguments}

\* convertFile: validateInputFile settles.
ConverterValidateInput(v) ==
  /\ conv.stage = "constructed"
  /\ conv' = IF v = "ok"
               THEN [conv EXCEPT !.stage = "validated"]
               ELSE [stage |-> "failed", options |-> conv.options,
                     stats |-> UpdateStats(conv.stats, 0, 0, FALSE),
                     written |-> OutputsAt("validateInputFile"),
                     result |-> FailureResult(1, v), failedAt |-> "validateInputFile"]
  /\ UNCHANGED <<batchVars, qual, opt, dir, gui>>

\* convertFile: fs.ensureDir(path.dirname(outputPath)) settles.
ConverterEnsureDir(ok) ==
  /\ conv.stage = "validated"
  /\ conv' = IF ok
               THEN [conv EXCEPT !.stage = "ready", !.written = OutputsAt("ensureDir")]
               ELSE [stage |-> "failed", options |-> conv.options,
                     stats |-> UpdateStats(conv.stats, 0, 0, FALSE),
                     written |-> conv.written,
                     result |-> FailureResult(1, "codec"), failedAt |-> "ensureDir"]
  /\ UNCHANGED <<batchVars, qual, opt, dir, gui>>

\* convertFile: the options go to sharp's .webp(); the encode, the write and
\* the stat of the written file succeed or one of them throws.
ConverterEncode(outcome, outputSize) ==
  /\ conv.stage = "ready"
  /\ conv' = IF SharpWebpAccepts(conv.options) /\ outcome = "ok"
               THEN [stage |-> "encoded", options |-> conv.options,
                     stats |-> UpdateStats(conv.stats, InputSize(1), outputSize, TRUE),
                     written |-> OutputsAt("writeFile"),
                     result |-> SuccessResult(1, InputSize(1), outputSize),
                     encodedWith |-> conv.options]
               ELSE [stage |-> "failed", options |-> conv.options,
                     stats |-> UpdateStats(conv.stats, 0, 0, FALSE),
                     written |-> IF SharpWebpAccepts(conv.options) /\ outcome = "stat"
                                   THEN OutputsAt("writeFile") ELSE OutputsAt("toBuffer"),
                     result |-> FailureResult(1, IF SharpWebpAccepts(conv.options)
                                                   THEN "codec" ELSE "parameter"),
                     failedAt |-> IF SharpWebpAccepts(conv.options) /\ outcome = "stat"
                                    THEN "stat" ELSE "toBuffer"]
  /\ UNCHANGED <<batchVars, qual, opt, dir, gui>>

(***************************************************************************)
(* Specifications.                                                         *)
(***************************************************************************)
\* The batch orchestrator.
Init ==
  /\ BatchInit
  /\ qual = QualityIdle
  /\ opt = OptimizerIdle
  /\ conv = ConverterIdle
  /\ dir = DirectoryIdle
  /\ gui = GuiIdle

Next ==
  \/ \E cb \in {"ok", "throwing"} : SetProgressCallback(cb)
  \/ \E n \in 0..MaxFiles : ConvertFiles(n)
  \/ \E ok \in BOOLEAN : EnsureDirDone(ok)
  \/ \E i \in 1..MaxFiles, v \in {"ok"} \cup ValidationFailures : Validate(i, v)
  \/ \E i \in 1..MaxFiles, o \in OutputSizes : ConvertOk(i, o)
  \/ \E i \in 1..MaxFiles : ConvertFail(i)
  \/ \E i \in 1..MaxFiles, t \in BOOLEAN : MapperResume(i, t)
  \/ \E i \in 1..MaxFiles : PMapFulfilled(i)
  \/ \E i \in 1..MaxFiles : PMapRejected(i)
  \/ ResetStats

Spec == Init /\ [][Next]_vars

\* One BatchProcessor, without a progress callback, used for several batches
\* one after the other.
NextRuns ==
  \/ \E n \in 0..MaxFiles : ConvertFiles(n)
  \/ \E n \in 0..MaxFiles : ConvertFilesAgain(n)
  \/ \E ok \in BOOLEAN : EnsureDirDone(ok)
  \/ \E i \in 1..MaxFiles, v \in {"ok"} \cup ValidationFailures : Validate(i, v)
  \/ \E i \in 1..MaxFiles, o \in OutputSizes : ConvertOk(i, o)
  \/ \E i \in 1..MaxFiles : ConvertFail(i)
  \/ \E i \in 1..MaxFiles, t \in BOOLEAN : MapperResume(i, t)
  \/ \E i \in 1..MaxFiles : PMapFulfilled(i)

SpecRuns == Init /\ [][NextRuns]_vars

\* One run over a longer list, with fewer kinds of failure: the pool itself.
NextPool ==
  \/ \E cb \in {"ok", "throwing"} : SetProgressCallback(cb)
  \/ \E n \in 0..MaxPoolFiles : ConvertFiles(n)
  \/ \E ok \in BOOLEAN : EnsureDirDone(ok)
  \/ \E i \in 1..MaxPoolFiles, v \in {"ok", "missing"} : Validate(i, v)
  \/ \E i \in 1..MaxPoolFiles : ConvertOk(i, 5)
  \/ \E i \in 1..MaxPoolFiles : ConvertFail(i)
  \/ \E i \in 1..MaxPoolFiles, t \in BOOLEAN : MapperResume(i, t)
  \/ \E i \in 1..MaxPoolFiles : PMapFulfilled(i)
  \/ \E i \in 1..MaxPoolFiles : PMapRejected(i)

SpecPool == Init /\ [][NextPool]_vars

BatchIdle ==
  /\ BatchInit
  /\ options = ConstructorOptions(
       [hasConcurrency |-> FALSE, concurrency |-> 0, stopOnError |-> FALSE])

\* The quality analyser applied to every pair of files of the bounded sets.
InitQuality ==
  /\ BatchIdle
  /\ QualityInit
  /\ opt = OptimizerIdle
  /\ conv = ConverterIdle
  /\ dir = DirectoryIdle
  /\ gui = GuiIdle

NextQuality ==
  \/ CompareImageQuality
  \/ CompareImageQualityThrows

SpecQuality == InitQuality /\ [][NextQuality]_vars

\* batchQualityAnalysis over every list of pairs of the bounded set, and the
\* report on its results.
InitBatchAnalysis ==
  /\ BatchIdle
  /\ BatchAnalysisInit
  /\ opt = OptimizerIdle
  /\ conv = ConverterIdle
  /\ dir = DirectoryIdle
  /\ gui = GuiIdle

NextBatchAnalysis ==
  \/ AnalysePair
  \/ \E c \in {"decode failed"} : AnalysePairCatch(c)
  \/ BatchAnalysisReturn
  \/ CallGenerateQualityReport

SpecBatchAnalysis == InitBatchAnalysis /\ [][NextBatchAnalysis]_vars

\* convertDirectory on every directory tree of the bounded set.
InitDirectory ==
  /\ BatchIdle
  /\ qual = QualityIdle
  /\ opt = OptimizerIdle
  /\ conv = ConverterIdle
  /\ DirectoryInit
  /\ gui = GuiIdle

NextDirectory ==
  \/ ConvertDirectory
  \/ ConvertDirectoryUnreadable

SpecDirectory == InitDirectory /\ [][NextDirectory]_vars

\* calculateMSE applied to every two buffers of the bounded set.
InitMse ==
  /\ BatchIdle
  /\ MseInit
  /\ opt = OptimizerIdle
  /\ conv = ConverterIdle
  /\ dir = DirectoryIdle
  /\ gui = GuiIdle

NextMse ==
  \/ CallCalculateMSE
  \/ CallCalculateMSEThrows

SpecMse == InitMse /\ [][NextMse]_vars

\* The analyser's pure functions applied to every argument of the bounded sets.
InitMetrics ==
  /\ BatchIdle
  /\ MetricsInit
  /\ opt = OptimizerIdle
  /\ conv = ConverterIdle
  /\ dir = DirectoryIdle
  /\ gui = GuiIdle

NextMetrics ==
  \/ CallCalculateQualityScore
  \/ CallGetQualityGrade
  \/ CallValidateQualityCriteria

SpecMetrics == InitMetrics /\ [][NextMetrics]_vars

\* The optimizer applied to every image and option set of the bounded sets.
InitOptimizer ==
  /\ BatchIdle
  /\ qual = QualityIdle
  /\ OptimizerInit
  /\ conv = ConverterIdle
  /\ dir = DirectoryIdle
  /\ gui = GuiIdle

NextOptimizer ==
  \/ CallOptimizeForCompression
  \/ CallOptimizeForQuality
  \/ CallOptimizeBalanced
  \/ CallOptimizeAdaptive
  \/ CallOptimizeAdaptiveThrows
  \/ CallValidateOptimization

SpecOptimizer == InitOptimizer /\ [][NextOptimizer]_vars

\* One 'convert-files' request.
InitGui ==
  /\ BatchIdle
  /\ qual = QualityIdle
  /\ opt = OptimizerIdle
  /\ conv = ConverterIdle
  /\ dir = DirectoryIdle
  /\ GuiInit

NextGui ==
  \/ \E ok \in BOOLEAN : GuiImported(ok)
  \/ \E r \in OutputSizes : GuiConvertReturned(r)
  \/ \E c \in ValidationFailures \cup {"codec"} : GuiConvertThrew(c)

SpecGui == InitGui /\ [][NextGui]_vars

\* One converter constructed with every options object of the bounded set.
InitConverter ==
  /\ BatchIdle
  /\ qual = QualityIdle
  /\ opt = OptimizerIdle
  /\ ConverterInit
  /\ dir = DirectoryIdle
  /\ gui = GuiIdle

NextConverter ==
  \/ \E v \in {"ok"} \cup ValidationFailures : ConverterValidateInput(v)
  \/ \E ok \in BOOLEAN : ConverterEnsureDir(ok)
  \/ \E outcome \in EncodeOutcomes, o \in OutputSizes : ConverterEncode(outcome, o)

SpecConverter == InitConverter /\ [][NextConverter]_vars

(***************************************************************************)
(* Properties of the batch orchestrator (specification Spec).              *)
(***************************************************************************)
\* Inputs whose conversion succeeded / failed since the statistics were last reset.
Succeeded == {i \in sinceReset : cause[i] = "none"}
Failed == {i \in sinceReset : cause[i] # "none"}

\* Inputs whose mapper invocation got as far as the progress callback.
PastCallback == {i \in Indices : pc[i] \in {"notified", "threw", "fulfilled", "rejected"}}

\* The progress callback threw for some input.
ObserverThrew == \E i \in Indices : pc[i] \in {"threw", "rejected"}

RECURSIVE SumBytes(_, _)
SumBytes(S, which) ==
  IF S = {} THEN 0
  ELSE LET i == CHOOSE x \in S : TRUE IN
       (IF which = "input" THEN result[i].inputSize ELSE result[i].outputSize)
         + SumBytes(S \ {i}, which)

\* C1: with concurrency C, 1 <= C <= N, the number of per-item jobs that have
\* started and not yet finished is at most C in every reachable state.
ConcurrencyBound ==
  (1 <= options.concurrency /\ options.concurrency <= Len(inputPaths))
    => Cardinality(Running) <= options.concurrency

\* C1 witness: C = 1 < N = 2, the first job has finished, the second is in flight.
ConcurrencyBoundWitness ==
  /\ options.concurrency = 1
  /\ Len(inputPaths) = 2
  /\ pc[1] = "fulfilled"
  /\ Running = {2}

\* C2 (as claimed): with stopOnError=true, once some item's conversion has failed,
\* no item that has not started is started by any later step.
StopOnErrorStopsAdmission ==
  [][(options.stopOnError /\ \E i \in Indices : cause[i] # "none")
       => \A j \in Indices : pc[j] = "pending" => pc'[j] = "pending"]_vars

\* C3: with stopOnError=false and a progress callback that does not throw, the
\* pool, once started, never rejects; when convertFiles resolves every input
\* has run and has its own result, and a failed input's result has
\* success=false and carries the message of what failed.
PerItemFailuresAreRecorded ==
  (~options.stopOnError /\ ~ObserverThrew) =>
    /\ phase = "rejected" => \A i \in Indices : pc[i] = "pending"
    /\ phase = "resolved" =>
         \A i \in Indices :
           /\ pc[i] = "fulfilled"
           /\ results[i] # Undefined
           /\ results[i].inputPath = inputPaths[i]
           /\ results[i].success = (cause[i] = "none")
           /\ cause[i] # "none" => results[i].error = ErrorMessage(cause[i])

\* C3 witness: a resolved run of two inputs, the first failed, the second converted.
PerItemFailuresWitness ==
  /\ ~options.stopOnError
  /\ phase = "resolved"
  /\ Len(inputPaths) = 2
  /\ cause[1] = "codec"
  /\ results[2].success

\* C4: processed + failed is the number of convertFile calls that finished since
\* the last reset: processed counts the successful ones, failed the failed ones.
StatsCountEveryFinish ==
  /\ stats.processed = Cardinality(Succeeded)
  /\ stats.failed = Cardinality(Failed)
  /\ stats.processed + stats.failed = Cardinality(sinceReset)

\* C4 witness: two jobs were in flight together and finished in the order 2, 1,
\* one successfully and one not.
StatsCountWitness ==
  /\ finishOrder = <<2, 1>>
  /\ sinceReset = {1, 2}
  /\ stats.processed = 1
  /\ stats.failed = 1

\* C5 (as claimed): the ratio getStats reports is (sum in - sum out) / sum in over
\* the successful jobs, 0 when none succeeded; failed jobs add no bytes.
AggregateRatioIsFraction ==
  LET r == GetStats(stats).totalCompressionRatio
      before == SumBytes(Succeeded, "input")
      after == SumBytes(Succeeded, "output")
  IN /\ stats.totalSizeBefore = before
     /\ stats.totalSizeAfter = after
     /\ stats.failed = Cardinality(Failed)
     /\ IF before > 0 THEN r.num * before = r.den * (before - after)
                      ELSE r.num = 0

\* C5 (amended): the ratio getStats reports is the percentage
\* 100 * (sum in - sum out) / sum in over the successful jobs, 0 when none
\* succeeded; failed jobs add to neither byte total and failed counts them all.
AggregateRatioIsPercentage ==
  LET r == GetStats(stats).totalCompressionRatio
      before == SumBytes(Succeeded, "input")
      after == SumBytes(Succeeded, "output")
  IN /\ stats.totalSizeBefore = before
     /\ stats.totalSizeAfter = after
     /\ stats.failed = Cardinality(Failed)
     /\ IF before > 0 THEN r.num * before = 100 * r.den * (before - after)
                      ELSE r.num = 0

\* C5 witness: one job succeeded with an output of another size than its input,
\* another failed.
AggregateRatioWitness ==
  /\ Succeeded # {}
  /\ Failed # {}
  /\ SumBytes(Succeeded, "input") # SumBytes(Succeeded, "output")

ObserverThrowIsContained ==
  ObserverThrew =>
    /\ phase # "rejected"
    /\ (Running = {} /\ phase # "running") =>
         \A i \in Indices : pc[i] # "pending"

\* C16 (as claimed): whatever options object the constructor was given, once
\* convertFiles has a non-empty list to process, the concurrency it passes to
\* the pool is an integer C >= 1.
ConcurrencyAtLeastOne ==
  (phase # "idle" /\ Len(inputPaths) > 0) =>
    /\ PMapOptions.concurrency \in Nat
    /\ PMapOptions.concurrency >= 1

RECURSIVE SumSaved(_, _)
SumSaved(rs, S) ==
  IF S = {} THEN 0
  ELSE LET i == CHOOSE x \in S : TRUE IN
       (IF rs[i].success THEN rs[i].savedBytes ELSE 0) + SumSaved(rs, S \ {i})

\* C17 (as claimed, specification SpecRuns): the summary printed when a
\* convertFiles run finishes shows that run's numbers: as many successes and
\* failures as the run's results have, and the bytes saved by the run's
\* successful items only, also when the processor ran a batch before.
SummaryIsOfThisRun ==
  (phase = "resolved" /\ summary.printed) =>
    /\ summary.successful = Cardinality({i \in Indices : results[i].success})
    /\ summary.failed = Cardinality({i \in Indices : ~results[i].success})
    /\ summary.totalSaved = SumSaved(results, Indices)

\* Inputs whose mapper invocation has not settled yet.
Unsettled == {i \in Indices : pc[i] \notin {"fulfilled", "rejected"}}

\* C21 (specification SpecPool): while the pool runs and has not been stopped,
\* the jobs in flight are exactly min(C, inputs not yet finished) many, and the
\* inputs admitted so far are a prefix of the input list: a queued input is
\* admitted in the step in which a job in flight finishes.
PoolIsWorkConserving ==
  (phase = "running" /\ ~isRejected) =>
    /\ Cardinality(Running) = Min(PMapOptions.concurrency, Cardinality(Unsettled))
    /\ {i \in Indices : pc[i] # "pending"} = 1..(nextIndex - 1)
    /\ resolvingCount = Cardinality(Running)

\* C21 witness: C = 2, three inputs; the first has finished while the second
\* is still being converted, and the third is already in flight.
PoolWitness ==
  /\ options.concurrency = 2
  /\ Len(inputPaths) = 3
  /\ pc[1] = "fulfilled"
  /\ pc[2] = "convert"
  /\ pc[3] \in {"validate", "convert"}

\* Jobs whose convertFile call has not returned yet.
Converting == {i \in Indices : pc[i] \in {"validate", "convert"}}

\* C22 (as claimed, specification SpecPool): admission does not wait for the
\* progress callback: in a state where the callback of a finished job has been
\* called and has returned, no input is still queued while fewer than C
\* conversions are under way.
AdmissionDoesNotWaitForCallback ==
  (phase = "running" /\ ~isRejected /\ progressCallback # "null") =>
    \A i \in Indices :
      pc[i] = "notified" =>
        \/ \A j \in Indices : pc[j] # "pending"
        \/ Cardinality(Converting) >= PMapOptions.concurrency

\* C28 (specification SpecPool): the list convertFiles resolves with has one
\* result per input, and result i is that of input i, in whatever order the
\* jobs finished.
ResultsAreInInputOrder ==
  phase = "resolved" =>
    /\ Len(results) = Len(inputPaths)
    /\ \A i \in DOMAIN inputPaths :
          /\ results[i] # Undefined
          /\ results[i].inputPath = inputPaths[i]

\* Three inputs, two at a time, the first the last to finish.
ResultsOrderWitness ==
  /\ phase = "resolved"
  /\ Len(inputPaths) = 3
  /\ PMapOptions.concurrency = 2
  /\ finishOrder = <<2, 3, 1>>
  /\ \A i \in 1..3 : results[i].inputPath = inputPaths[i]

\* C27 (as claimed, specification SpecPool): the inputs of a run are distinct
\* paths, and no two jobs of the run whose convertFile call is under way at
\* the same time have the same output path.
NoTwoJobsWriteTheSameOutput ==
  /\ \A i, j \in DOMAIN inputPaths :
        i # j => PathOf(inputPaths[i]) # PathOf(inputPaths[j])
  /\ \A i, j \in Converting :
        i # j => GenerateOutputPath(inputPaths[i]) # GenerateOutputPath(inputPaths[j])

(***************************************************************************)
(* Properties of the quality analyser (specification SpecQuality).         *)
(***************************************************************************)
\* C8 (as claimed): a comparison whose mse is 0 has psnr = +infinity, ssim = 1.0
\* and grade excellent, whatever its compression ratio.
IdenticalImagesAreExcellent ==
  (qual.stage = "done" /\ qual.result.mse.num = 0) =>
    /\ qual.result.psnr = Infinity
    /\ qual.result.ssim = 1000
    /\ qual.result.qualityGrade = "excellent"

(***************************************************************************)
(* Properties of the optimizer (specification SpecOptimizer).              *)
(***************************************************************************)
\* C9 (as claimed): for options with minQuality <= maxQuality every strategy
\* returns minQuality <= quality <= maxQuality and 0 <= effort <= 6.
OptimizerOutputInRange ==
  LET o == MergeOptions(opt.options) IN
  (opt.stage = "done" /\ o.minQuality <= o.maxQuality) =>
    /\ o.minQuality <= opt.result.quality
    /\ opt.result.quality <= o.maxQuality
    /\ 0 <= opt.result.effort
    /\ opt.result.effort <= 6

\* The ordered rule list of the claim.
FirstMatchingRule(a) ==
  IF a.fileSize > 10485760 THEN "compression"
  ELSE IF a.fileSize < 512000 THEN "quality"
  ELSE IF a.width * a.height > 2000000 THEN "compression"
  ELSE IF a.frames > 50 THEN "compression"
  ELSE "balanced"

StrategyRan(strategy, r) ==
  CASE strategy = "compression" -> r.optimizationStrategy = "compression-focused"
    [] strategy = "quality" ->
         r.optimizationStrategy \in {"quality-focused", "quality-focused-lossless"}
    [] OTHER -> r.optimizationStrategy = "balanced"

ScenarioAttributes == [fileSize |-> 12000000, width |-> 1920, height |-> 1080, frames |-> 30]

BoundaryAttributes == [fileSize |-> 1500000, width |-> 1000, height |-> 800, frames |-> 10]

Clamp(x, lo, hi) == IF x < lo THEN lo ELSE IF x > hi THEN hi ELSE x

\* base quality minus floor((1 - targetRatio) * 30), for the call's arguments.
AdjustedBase ==
  LET o == MergeOptions(opt.options) IN
  PredictQualityFromSize(opt.analysis.width, opt.analysis.height, opt.analysis.frames)
    - ((100 - o.targetCompressionRatio) * 30) \div 100

AreaCut == IF opt.analysis.width * opt.analysis.height > 1000000 THEN 10 ELSE 0
FrameCut == IF opt.analysis.frames > 20 THEN 5 ELSE 0

\* C18 (as claimed): with minQuality <= maxQuality the compression strategy's
\* quality is the fully adjusted value (base - adjustment - 10 for a large area
\* - 5 for many frames) clamped once to [minQuality, maxQuality], and its
\* effort is maxEffort.
CompressionQualityClampedLast ==
  LET o == MergeOptions(opt.options) IN
  (opt.stage = "done" /\ opt.call = "compression" /\ o.minQuality <= o.maxQuality) =>
    /\ opt.result.quality =
         Clamp(AdjustedBase - AreaCut - FrameCut, o.minQuality, o.maxQuality)
    /\ opt.result.effort = o.maxEffort

\* C18 (amended): with minQuality <= maxQuality the compression strategy clamps
\* base - adjustment to [minQuality, maxQuality] first, then takes off 10 for a
\* large area and 5 for many frames, each time going no lower than minQuality;
\* this is the single clamp of the fully adjusted value whenever
\* base - adjustment <= maxQuality; its effort is maxEffort.
CompressionQualityClampedFirst ==
  LET o == MergeOptions(opt.options)
      clamped == Clamp(AdjustedBase, o.minQuality, o.maxQuality)
      afterArea == IF clamped - AreaCut < o.minQuality THEN o.minQuality
                   ELSE clamped - AreaCut
      afterFrames == IF afterArea - FrameCut < o.minQuality THEN o.minQuality
                     ELSE afterArea - FrameCut
  IN (opt.stage = "done" /\ opt.call = "compression" /\ o.minQuality <= o.maxQuality) =>
       /\ opt.result.quality = afterFrames
       /\ AdjustedBase <= o.maxQuality =>
            opt.result.quality =
              Clamp(AdjustedBase - AreaCut - FrameCut, o.minQuality, o.maxQuality)
       /\ opt.result.effort = o.maxEffort

\* C18 witness: base - adjustment (85 - 11) is above maxQuality 70 and the
\* image has many frames: the result is 70 - 5.
CompressionQualityWitness ==
  /\ opt.stage = "done"
  /\ opt.call = "compression"
  /\ MergeOptions(opt.options).maxQuality = 70
  /\ AdjustedBase = 74
  /\ FrameCut = 5
  /\ opt.result.quality = 65

\* The conditions of the adaptive selector that hold for attributes a.
ConditionsHolding(a) ==
  (IF a.fileSize > 10485760 THEN {LargeFileReason} ELSE {})
  \cup (IF a.fileSize < 512000 THEN {SmallFileReason} ELSE {})
  \cup (IF a.width * a.height > 2000000 THEN {HighResolutionReason} ELSE {})
  \cup (IF a.frames > 50 THEN {ManyFramesReason} ELSE {})

\* C20: the rationale of optimizeAdaptive names every one of the four
\* conditions that holds (and no other), each once, also those that did not
\* decide the strategy; it is the default-balanced text exactly when none
\* holds, and that is exactly when the selected strategy is balanced.
RationaleListsEveryCondition ==
  (opt.stage = "done" /\ opt.call = "adaptive") =>
    LET reasons == opt.result.selectionReason
        named == {reasons[k] : k \in DOMAIN reasons}
        holding == ConditionsHolding(opt.analysis)
    IN /\ holding # {} => (named = holding /\ Len(reasons) = Cardinality(holding))
       /\ (reasons = <<DefaultReason>>) <=> (holding = {})
       /\ (holding = {}) <=> (opt.result.selectedStrategy = "balanced")

\* C20 witness: a large file decides for compression and the rationale also
\* names the high resolution, which decided nothing.
RationaleWitness ==
  /\ opt.stage = "done"
  /\ opt.call = "adaptive"
  /\ opt.result.selectedStrategy = "compression"
  /\ opt.result.selectionReason = <<LargeFileReason, HighResolutionReason>>

\* C29 (as claimed): whatever the image's attributes, the result optimizeAdaptive
\* returns under the default options passes validateOptimization under the
\* same options: its estimated PSNR is not below minPSNR.
AdaptiveResultPassesValidation ==
  (/\ opt.stage = "validated"
   /\ opt.call = "adaptive"
   /\ MergeOptions(opt.options) = DefaultOptions) =>
    /\ opt.valid
    /\ opt.result.estimatedPSNR >= DefaultOptions.minPSNR * 100

(***************************************************************************)
(* Properties of the GUI handler (specification SpecGui).                  *)
(***************************************************************************)
Terminal == {"completed", "error"}

\* C30: the events sent so far are, file by file in list order, one
\* 'processing' and then one terminal event ('completed' or 'error'), the
\* terminal event of a file coming before any event of the next; only the
\* file being converted lacks its terminal event.  A failed file does not
\* end the loop: the handler returns only after every file has had its two
\* events, and the list it returns has one entry per file in list order.
GuiConvertsOneAtATime ==
  /\ \A k \in DOMAIN gui.events :
        /\ gui.events[k].fileIndex = (k - 1) \div 2
        /\ IF k % 2 = 1 THEN gui.events[k].status = "processing"
                        ELSE gui.events[k].status \in Terminal
  /\ gui.stage = "converting" =>
        /\ gui.i <= Len(gui.files)
        /\ Len(gui.events) = 2 * gui.i - 1
        /\ Len(gui.results) = gui.i - 1
  /\ gui.stage = "returned" =>
        /\ Len(gui.events) = 2 * Len(gui.files)
        /\ Len(gui.results) = Len(gui.files)
        /\ \A k \in DOMAIN gui.files :
              /\ gui.results[k].inputPath = gui.files[k]
              /\ gui.results[k].success = (gui.events[2 * k].status = "completed")

\* Three files, the second of which fails.
GuiWitness ==
  /\ gui.stage = "returned"
  /\ Len(gui.files) = 3
  /\ [k \in 1..6 |-> gui.events[k].status]
       = <<"processing", "completed", "processing", "error", "processing", "completed">>
  /\ [k \in 1..3 |-> gui.results[k].success] = <<TRUE, FALSE, TRUE>>

(***************************************************************************)
(* Properties of the converter (specification SpecConverter).              *)
(***************************************************************************)
OutOfRange(o) ==
  \/ ~o.lossless /\ (o.quality < 30 \/ o.quality > 100)
  \/ o.effort < 0 \/ o.effort > 6

\* C12 (as claimed): a quality outside [30,100] (non-lossless) or an effort
\* outside [0,6] given to the constructor is refused with an error outcome: no
\* encode is ever done with such parameters.
EncodeParametersValidated ==
  conv.stage = "encoded" => ~OutOfRange(conv.encodedWith)

\* C26: a convertFile call that fails, whatever threw (validation, the output
\* directory, the codec, the write), ends in an error outcome with a message,
\* adds exactly 1 to failed and leaves processed, totalSizeBefore and
\* totalSizeAfter as they were; when input validation threw, no output
\* directory and no output file has been written.
FailureIsCountedOnce ==
  [][conv.stage # "idle" /\ conv.stage # "failed" /\ conv'.stage = "failed" =>
       /\ ~conv'.result.success
       /\ conv'.result.error # ""
       /\ conv'.stats.failed = conv.stats.failed + 1
       /\ conv'.stats.processed = conv.stats.processed
       /\ conv'.stats.totalSizeBefore = conv.stats.totalSizeBefore
       /\ conv'.stats.totalSizeAfter = conv.stats.totalSizeAfter
       /\ (conv'.failedAt = "validateInputFile" => conv'.written = {})]_vars

\* A validation failure (a file above 100MB) on a fresh converter.
FailureWitness ==
  /\ conv.stage = "failed"
  /\ conv.failedAt = "validateInputFile"
  /\ conv.result.error = ErrorMessage("toolarge")
  /\ conv.stats.failed = 1

(***************************************************************************)
(* Properties of the analyser's functions (specification SpecMetrics).     *)
(***************************************************************************)
\* The three checks of the claim, from the call's arguments.
FalseChecks ==
  LET c == MergeCriteria(qual.criteria) IN
  (IF qual.psnr >= c.minPSNR THEN {} ELSE {"psnr"})
  \cup (IF qual.score >= c.minQualityScore THEN {} ELSE {"qualityScore"})
  \cup (IF /\ qual.ratio.num * c.minCompressionRatio.den
                >= c.minCompressionRatio.num * qual.ratio.den
            /\ qual.ratio.num * c.maxCompressionRatio.den
                <= c.maxCompressionRatio.num * qual.ratio.den
         THEN {} ELSE {"compressionRatio"})

\* C13: validateQualityCriteria returns true exactly when psnr >= minPSNR,
\* score >= minScore and minRatio <= ratio <= maxRatio all hold; the checks it
\* warns about are exactly the false ones; the same arguments give the same
\* boolean and the same warnings again.
ValidationIsConjunctionOfChecks ==
  (qual.stage = "done" /\ qual.call = "validate") =>
    /\ qual.result.passed = (FalseChecks = {})
    /\ {qual.result.warned[k] : k \in DOMAIN qual.result.warned} = FalseChecks
    /\ Len(qual.result.warned) = Cardinality(FalseChecks)
    /\ ValidateQualityCriteria(
         [psnr |-> qual.psnr, qualityScore |-> qual.score, compressionRatio |-> qual.ratio],
         qual.criteria) = qual.result

\* C13 witness: psnr and score pass, the ratio is above maxRatio only.
ValidationWitness ==
  /\ qual.stage = "done"
  /\ qual.call = "validate"
  /\ qual.criteria = [minPSNR |-> 3500]
  /\ qual.ratio = Ratio(13, 20)
  /\ ~qual.result.passed
  /\ qual.result.warned = <<"compressionRatio">>

\* C14: calculateQualityScore returns an integer from 0 to 100 for every psnr
\* (+infinity and negative ones too), every ssim in [0,1] and every compression
\* ratio (negative or above 1 too); so is the score of the error sentinel.
ScoreInRange ==
  /\ (qual.stage = "done" /\ qual.call = "score") => qual.result \in 0..100
  /\ ErrorSentinel.qualityScore \in 0..100

\* C14 witness: a negative psnr, ssim 0 and a negative ratio score 0.
ScoreInRangeWitness ==
  /\ qual.stage = "done"
  /\ qual.call = "score"
  /\ qual.psnr < 0
  /\ qual.ssim = 0
  /\ qual.ratio.num < 0
  /\ qual.result = 0

\* C15: with ssim and compression ratio fixed, a larger psnr never gives a
\* smaller score, across the 30, 35 and 40 dB boundaries too.
ScoreMonotoneInPsnr ==
  (qual.stage = "done" /\ qual.call = "score") =>
    \A p \in Psnrs :
      p >= qual.psnr => CalculateQualityScore(p, qual.ssim, qual.ratio) >= qual.result

\* C15 witness: a psnr just below 30 dB scores strictly less than 30 dB does.
ScoreMonotoneWitness ==
  /\ qual.stage = "done"
  /\ qual.call = "score"
  /\ qual.psnr = 2999
  /\ qual.ssim = 850
  /\ qual.result <= CalculateQualityScore(3000, qual.ssim, qual.ratio)
  /\ qual.result < CalculateQualityScore(3500, qual.ssim, qual.ratio)

\* C19: getQualityGrade gives excellent, good or acceptable for the highest
\* tier whose psnr threshold (40, 35, 30 dB) and score threshold (90, 75, 60)
\* are both met; when no tier is met it gives poor if psnr >= 25 dB and
\* unacceptable otherwise, whatever the score; ssim has no influence.
GradeNeedsBothThresholds ==
  (qual.stage = "done" /\ qual.call = "grade") =>
    /\ qual.result =
         IF qual.psnr >= 4000 /\ qual.score >= 90 THEN "excellent"
         ELSE IF qual.psnr >= 3500 /\ qual.score >= 75 THEN "good"
         ELSE IF qual.psnr >= 3000 /\ qual.score >= 60 THEN "acceptable"
         ELSE IF qual.psnr >= 2500 THEN "poor"
         ELSE "unacceptable"
    /\ \A x \in Ssims : GetQualityGrade(qual.psnr, x, qual.score) = qual.result

\* C19 witness: psnr above every threshold with a score below 60 is graded poor.
GradeWitness ==
  /\ qual.stage = "done"
  /\ qual.call = "grade"
  /\ qual.psnr = Infinity
  /\ qual.score = 59
  /\ qual.result = "poor"

RECURSIVE SumOfSquares(_, _, _)
SumOfSquares(a, b, S) ==
  IF S = {} THEN 0
  ELSE LET k == CHOOSE x \in S : TRUE IN
       (a[k] - b[k]) * (a[k] - b[k]) + SumOfSquares(a, b, S \ {k})

\* C24: calculateMSE throws the size-mismatch error, with no result, exactly
\* when the two buffers differ in length; for buffers of the same length its
\* result is the sum of the squared differences of all samples divided by the
\* number of samples, and it is 0 exactly when the buffers are identical.
MseIsMeanOrMismatch ==
  /\ qual.stage = "threw" =>
       /\ Len(qual.originalPixels) # Len(qual.compressedPixels)
       /\ "result" \notin DOMAIN qual
  /\ qual.stage = "done" =>
       /\ Len(qual.originalPixels) = Len(qual.compressedPixels)
       /\ qual.result.den = Len(qual.originalPixels)
       /\ qual.result.num =
            SumOfSquares(qual.originalPixels, qual.compressedPixels,
                         DOMAIN qual.originalPixels)
       /\ (qual.result.num = 0) <=> (qual.originalPixels = qual.compressedPixels)

\* C24 witness: two buffers of two pixels that differ in one sample.
MseWitness ==
  /\ qual.stage = "done"
  /\ qual.channels = 3
  /\ Len(qual.originalPixels) = 6
  /\ qual.result = Ratio(100, 6)

(***************************************************************************)
(* Properties of convertDirectory (specification SpecDirectory).           *)
(***************************************************************************)
IsGif(name) == name.ext \in {".gif", ".GIF"}

\* The paths of the .gif files in a directory itself.
GifsIn(inputDir, entries) ==
  {Append(inputDir, entries[k].name) :
     k \in {x \in DOMAIN entries : entries[x].kind = "file" /\ IsGif(entries[x].name)}}

\* The paths of the .gif files in a directory and in all directories below it.
RECURSIVE GifsBelow(_, _)
GifsBelow(inputDir, entries) ==
  GifsIn(inputDir, entries) \cup
    UNION {GifsBelow(Append(inputDir, entries[k].name), entries[k].children) :
             k \in {x \in DOMAIN entries : entries[x].kind = "dir"}}

Elements(list) == {list[k] : k \in DOMAIN list}

====
